---- MODULE Spec2Model ----
(***************************************************************************)
(* A model of noodles-bgzf's MultithreadedReader                           *)
(* (src/noodles-bgzf/src/multithreaded_reader.rs): one reader thread that  *)
(* reads raw frames, worker_count inflater threads that decode them, and   *)
(* the caller's thread that receives the decoded blocks in stream order.   *)
(*                                                                         *)
(* Threads are modelled by a program counter each; a step of a thread is   *)
(* the code between two operations that can block or fail on a channel.    *)
(* A channel is the sequence of the messages it holds; an endpoint is      *)
(* alive as long as the thread (or the State) that owns it is.             *)
(*                                                                         *)
(* The pure functions of the codecs (virtual position packing, the count   *)
(* fields of bcf's write_site, the framing of bam's                        *)
(* write_alignment_record, the text form of vcf's Info, cram's             *)
(* ExternalDataReaders and read_block, vcf's parse_alternative_allele) are *)
(* operators; CodecSpec applies each to inputs at and around the limits of *)
(* its types.                                                              *)
(***************************************************************************)
EXTENDS Integers, Sequences, FiniteSets, TLC

\* Largest worker count tried.
MaxWorkers == 2

\* Longest stream of frames tried.
MaxFrames == 3

(***************************************************************************)
(* The underlying stream.  A frame is known by what the pipeline can       *)
(* observe of it: its on-disk size, the length of its decompressed data,   *)
(* and whether decoding it succeeds.  "data" is a valid non-empty block,   *)
(* "empty" a valid block with no data (the EOF marker among them), "bad"   *)
(* a frame whose decoding fails (bad magic, checksum mismatch).            *)
(***************************************************************************)
FrameKinds ==
    { [kind |-> "data",  size |-> 3, len |-> 1],
      [kind |-> "empty", size |-> 1, len |-> 0],
      [kind |-> "bad",   size |-> 2, len |-> 0] }

\* How the stream ends after its frames: end of input, or an I/O error.
Tails == {"eof", "io_error"}

Streams == UNION { [1..n -> FrameKinds] : n \in 0..MaxFrames }

FrameIds == 1..MaxFrames

\* Option<T> as a sequence of length at most one.
None == << >>

Some(x) == << x >>

IsSome(o) == Len(o) = 1

Unwrap(o) == o[1]

Range(s) == { s[i] : i \in 1..Len(s) }

RECURSIVE SumSizes(_, _)
\* The sum of the on-disk sizes of frames 1..n of stream s.
SumSizes(s, n) == IF n = 0 THEN 0 ELSE SumSizes(s, n - 1) + s[n].size

VARIABLES
    worker_count,   \* with_worker_count's worker_count
    stream,         \* the frames of the underlying stream
    tail,           \* how the stream ends
    reader_pos,     \* frames the inner reader R has been advanced over
    recycle,        \* recycle channel: buffers
    inflate,        \* inflate channel: (buffer, buffered_tx) pairs
    read_ch,        \* read channel: buffered_rx receivers, named by frame
    buffered,       \* the one-shot channel of each frame: its message
    rx_dropped,     \* frames whose buffered_rx has been dropped
    buffers,        \* contents of each Buffer { buf, block }
    r_pc,           \* reader thread: position, or its result once it ended
    r_buffer,       \* reader thread: the buffer it holds
    w_pc,           \* inflater threads: position
    w_item,         \* inflater threads: the (buffer, buffered_tx) held
    state,          \* MultithreadedReader.state: Some(Running) or None
    position,       \* MultithreadedReader.position
    buffer,         \* MultithreadedReader.buffer (the active buffer)
    c_pc,           \* caller's thread: position
    c_call,         \* caller's thread: the method it is in
    c_rx,           \* caller's thread: the buffered_rx it is receiving on
    c_join,         \* finish: next inflater handle to join
    c_ret,          \* what the last fill_buf / finish returned
    received,       \* history: outcome of each recv_buffer that got a frame
    calls,          \* history: number of read_block calls made
    op              \* a call of one of the codec functions: input and output

\* The variables of the reader pipeline.
pvars == << worker_count, stream, tail, reader_pos, recycle, inflate, read_ch,
            buffered, rx_dropped, buffers, r_pc, r_buffer, w_pc, w_item, state,
            position, buffer, c_pc, c_call, c_rx, c_join, c_ret, received,
            calls >>

vars == << pvars, op >>

Workers == 1..worker_count

\* A pool that holds one buffer too many.
PoolSizeOffByOne == worker_count + 1

\* for _ in 0..worker_count.get() { recycle_tx.send(Buffer::default()) }
PoolSize == worker_count

\* Channels that hold one message fewer.
ChannelCapacityOneLess == worker_count - 1

\* crossbeam_channel::bounded(worker_count.get()): the capacity of the
\* inflate, read and recycle channels.
ChannelCapacity == worker_count

\* crossbeam_channel::bounded(1): the capacity of a frame's result channel.
ResultCapacity == 1

\* Buffer 0 is the Buffer::default() the struct starts with; 1..worker_count
\* are the ones with_worker_count sends to the recycle channel.
BufferIds == 0..PoolSize

\* Buffer::default(): nothing read, an empty block at position 0.
DefaultBuffer == [buf |-> 0, block |-> [frame |-> 0, size |-> 0, len |-> 0,
                                         position |-> 0, consumed |-> 0]]

NoMessage == [tag |-> "none", buffer |-> None]

\* No codec function is being called.
NoCall == [fn |-> "none"]

(***************************************************************************)
(* with_worker_count                                                       *)
(***************************************************************************)
PipelineInit ==
    /\ worker_count \in 1..MaxWorkers
    /\ stream \in Streams
    /\ tail \in Tails
    /\ reader_pos = 0
    /\ recycle = [i \in 1..PoolSize |-> i]
    /\ inflate = << >>
    /\ read_ch = << >>
    /\ buffered = [j \in FrameIds |-> NoMessage]
    /\ rx_dropped = {}
    /\ buffers = [b \in BufferIds |-> DefaultBuffer]
    /\ r_pc = "recv"
    /\ r_buffer = None
    /\ w_pc = [i \in Workers |-> "recv"]
    /\ w_item = [i \in Workers |-> None]
    /\ state = "Running"
    /\ position = 0
    /\ buffer = 0
    /\ c_pc = "idle"
    /\ c_call = "none"
    /\ c_rx = None
    /\ c_join = 1
    /\ c_ret = "none"
    /\ received = << >>
    /\ calls = 0

Init ==
    /\ PipelineInit
    /\ op = NoCall

(***************************************************************************)
(* Channel endpoints.                                                      *)
(***************************************************************************)
\* The reader thread owns inflate_tx, read_tx and recycle_rx until it ends.
ReaderAlive == r_pc \in {"recv", "send_inflate", "send_read"}

\* Each inflater owns a clone of inflate_rx until it ends.
InflaterAlive(i) == w_pc[i] \in {"recv", "send"}

\* State::Running owns read_rx and recycle_tx.
Running == state = "Running"

(***************************************************************************)
(* read_frame_into and parse_block (crate::reader::block).                 *)
(***************************************************************************)
\* read_frame_into at reader position p: "frame", "eof" (Ok(None)) or
\* "io_error" (Err).
read_frame_into(p) ==
    IF p < Len(stream) THEN "frame" ELSE tail

\* parse_block on the raw frame j: Ok with the block it decodes into, or Err.
parse_block_ok(j) == stream[j].kind # "bad"

parse_block(j, old) ==
    [frame |-> j, size |-> stream[j].size, len |-> stream[j].len,
     position |-> old.position, consumed |-> 0]

(***************************************************************************)
(* spawn_reader: the reader thread.                                        *)
(***************************************************************************)
\* What the thread's end drops: inflate_tx, read_tx, recycle_rx (and with it
\* the buffers left in the recycle channel), the buffer and the receiver it
\* holds; the read channel's messages go with it once read_rx is gone too.
ReaderEnds(result, held_rx) ==
    /\ r_pc' = result
    /\ r_buffer' = None
    /\ recycle' = << >>
    /\ IF Running
         THEN /\ read_ch' = read_ch
              /\ rx_dropped' = rx_dropped \cup held_rx
         ELSE /\ read_ch' = << >>
              /\ rx_dropped' = rx_dropped \cup held_rx \cup Range(read_ch)

\* A recv that fails as soon as the channel is disconnected.
RecycleRxRecvOkWhileConnected == recycle # << >> /\ Running

\* recycle_rx.recv() is Ok(buffer) as long as the channel holds a buffer,
\* also after recycle_tx was dropped.
RecycleRxRecvOk == recycle # << >>

\* while let Ok(mut buffer) = recycle_rx.recv() { read_frame_into(..)? .. }
ReaderRecv ==
    /\ r_pc = "recv"
    /\ IF RecycleRxRecvOk
         THEN LET r == read_frame_into(reader_pos) IN
              CASE r = "frame" ->
                     /\ r_pc' = "send_inflate"
                     /\ r_buffer' = Some(Head(recycle))
                     /\ recycle' = Tail(recycle)
                     /\ reader_pos' = reader_pos + 1
                     /\ buffers' = [buffers EXCEPT
                                      ![Head(recycle)].buf = reader_pos + 1]
                     /\ UNCHANGED << read_ch, rx_dropped >>
                [] r = "eof" ->
                     /\ ReaderEnds("Ok", {})
                     /\ UNCHANGED << reader_pos, buffers >>
                [] OTHER ->
                     /\ ReaderEnds("Err", {})
                     /\ UNCHANGED << reader_pos, buffers >>
         ELSE /\ ~Running
              /\ ReaderEnds("Ok", {})
              /\ UNCHANGED << reader_pos, buffers >>
    /\ UNCHANGED << op, worker_count, stream, tail, inflate, buffered, w_pc,
                    w_item, state, position, buffer, c_pc, c_call, c_rx,
                    c_join, c_ret, received, calls >>

\* inflate_tx.send((buffer, buffered_tx)).unwrap()
ReaderSendInflate ==
    /\ r_pc = "send_inflate"
    /\ IF \A i \in Workers : ~InflaterAlive(i)
         THEN /\ ReaderEnds("panicked", {reader_pos})
              /\ UNCHANGED inflate
         ELSE /\ Len(inflate) < ChannelCapacity
              /\ inflate' = Append(inflate, [buffer |-> Unwrap(r_buffer),
                                             frame |-> reader_pos])
              /\ r_buffer' = None
              /\ r_pc' = "send_read"
              /\ UNCHANGED << recycle, read_ch, rx_dropped >>
    /\ UNCHANGED << op, worker_count, stream, tail, reader_pos, buffered, buffers,
                    w_pc, w_item, state, position, buffer, c_pc, c_call, c_rx,
                    c_join, c_ret, received, calls >>

\* read_tx.send(buffered_rx).unwrap()
ReaderSendRead ==
    /\ r_pc = "send_read"
    /\ IF ~Running
         THEN ReaderEnds("panicked", {reader_pos})
         ELSE /\ Len(read_ch) < ChannelCapacity
              /\ read_ch' = Append(read_ch, reader_pos)
              /\ r_pc' = "recv"
              /\ UNCHANGED << r_buffer, recycle, rx_dropped >>
    /\ UNCHANGED << op, worker_count, stream, tail, reader_pos, inflate, buffered,
                    buffers, w_pc, w_item, state, position, buffer, c_pc,
                    c_call, c_rx, c_join, c_ret, received, calls >>

(***************************************************************************)
(* spawn_inflaters: the inflater threads.                                  *)
(***************************************************************************)
\* while let Ok((mut buffer, buffered_tx)) = inflate_rx.recv() {
\*     let result = parse_block(&buffer.buf, &mut buffer.block).map(|_| buffer);
\* An Err result drops the buffer.
InflaterRecv(i) ==
    /\ w_pc[i] = "recv"
    /\ IF inflate # << >>
         THEN LET b == Head(inflate).buffer
                  j == buffers[b].buf
              IN  /\ inflate' = Tail(inflate)
                  /\ w_pc' = [w_pc EXCEPT ![i] = "send"]
                  /\ IF parse_block_ok(j)
                       THEN /\ buffers' = [buffers EXCEPT ![b].block =
                                             parse_block(j, buffers[b].block)]
                            /\ w_item' = [w_item EXCEPT ![i] =
                                 Some([frame |-> Head(inflate).frame,
                                       result |-> [tag |-> "Ok",
                                                   buffer |-> Some(b)]])]
                       ELSE /\ buffers' = buffers
                            /\ w_item' = [w_item EXCEPT ![i] =
                                 Some([frame |-> Head(inflate).frame,
                                       result |-> [tag |-> "Err",
                                                   buffer |-> None]])]
         ELSE /\ ~ReaderAlive
              /\ w_pc' = [w_pc EXCEPT ![i] = "done"]
              /\ UNCHANGED << inflate, buffers, w_item >>
    /\ UNCHANGED << op, worker_count, stream, tail, reader_pos, recycle, read_ch,
                    buffered, rx_dropped, r_pc, r_buffer, state, position,
                    buffer, c_pc, c_call, c_rx, c_join, c_ret, received,
                    calls >>

\* The number of messages in the result channel of frame j.
ResultLen(j) == IF buffered[j].tag = "none" THEN 0 ELSE 1

\* buffered_tx.send(result).unwrap()
InflaterSend(i) ==
    /\ w_pc[i] = "send"
    /\ LET item == Unwrap(w_item[i]) IN
       IF item.frame \in rx_dropped
         THEN /\ w_pc' = [w_pc EXCEPT ![i] = "panicked"]
              /\ buffered' = buffered
         ELSE /\ ResultLen(item.frame) < ResultCapacity
              /\ w_pc' = [w_pc EXCEPT ![i] = "recv"]
              /\ buffered' = [buffered EXCEPT ![item.frame] = item.result]
    /\ w_item' = [w_item EXCEPT ![i] = None]
    /\ UNCHANGED << op, worker_count, stream, tail, reader_pos, recycle, inflate,
                    read_ch, rx_dropped, buffers, r_pc, r_buffer, state,
                    position, buffer, c_pc, c_call, c_rx, c_join, c_ret,
                    received, calls >>

(***************************************************************************)
(* MultithreadedReader: the caller's thread.                               *)
(***************************************************************************)
\* self.buffer.block.data().has_remaining()
has_remaining == buffers[buffer].block.consumed < buffers[buffer].block.len

\* The slice fill_buf returns: "data" when it is not empty.
Slice(remaining) == IF remaining THEN "data" ELSE "empty"

\* buffered_tx of frame j is still held by someone who may send on it.
TxAlive(j) ==
    \/ r_pc = "send_inflate" /\ reader_pos = j
    \/ \E k \in 1..Len(inflate) : inflate[k].frame = j
    \/ \E i \in Workers : IsSome(w_item[i]) /\ Unwrap(w_item[i]).frame = j

\* A fill_buf that brings a finished reader back to Running.
FillBufRestarting ==
    /\ c_pc = "idle"
    /\ c_call' = "fill_buf"
    /\ IF has_remaining
         THEN /\ c_ret' = "data"
              /\ UNCHANGED << c_pc, calls, state >>
         ELSE /\ c_ret' = "none"
              /\ c_pc' = "recv_rx"
              /\ state' = "Running"
              /\ calls' = IF calls <= Len(stream) THEN calls + 1 ELSE calls
    /\ UNCHANGED << op, worker_count, stream, tail, reader_pos, recycle, inflate,
                    read_ch, buffered, rx_dropped, buffers, r_pc, r_buffer,
                    w_pc, w_item, position, buffer, c_rx, c_join, received >>

\* fill_buf: if !self.buffer.block.data().has_remaining() { self.read_block()?; }
\* read_block starts with self.state.as_ref().unwrap().
FillBuf ==
    /\ c_pc = "idle"
    /\ c_call' = "fill_buf"
    /\ IF has_remaining
         THEN /\ c_ret' = "data"
              /\ UNCHANGED << c_pc, calls >>
         ELSE /\ c_ret' = IF Running THEN "none" ELSE "unwrap_none"
              /\ c_pc' = IF Running THEN "recv_rx" ELSE "panicked"
              /\ calls' = IF calls <= Len(stream) THEN calls + 1 ELSE calls
    /\ UNCHANGED << op, worker_count, stream, tail, reader_pos, recycle, inflate,
                    read_ch, buffered, rx_dropped, buffers, r_pc, r_buffer,
                    w_pc, w_item, state, position, buffer, c_rx, c_join,
                    received >>

\* consume(amt), with all that remains as amt.
Consume ==
    /\ c_pc = "idle"
    /\ has_remaining
    /\ c_call' = "consume"
    /\ c_ret' = "none"
    /\ buffers' = [buffers EXCEPT ![buffer].block.consumed =
                     buffers[buffer].block.len]
    /\ UNCHANGED << op, worker_count, stream, tail, reader_pos, recycle, inflate,
                    read_ch, buffered, rx_dropped, r_pc, r_buffer, w_pc,
                    w_item, state, position, buffer, c_pc, c_rx, c_join,
                    received, calls >>

\* A recv_buffer that takes whichever queued receiver has its result ready.
RecvBufferedRxCompletionOrder ==
    /\ c_pc = "recv_rx"
    /\ \E k \in 1..Len(read_ch) :
         /\ buffered[read_ch[k]].tag # "none"
         /\ c_rx' = Some(read_ch[k])
         /\ read_ch' = SubSeq(read_ch, 1, k - 1)
                          \o SubSeq(read_ch, k + 1, Len(read_ch))
    /\ c_pc' = "recv_buf"
    /\ UNCHANGED << op, worker_count, stream, tail, reader_pos, recycle, inflate,
                    buffered, rx_dropped, buffers, r_pc, r_buffer, w_pc,
                    w_item, state, position, buffer, c_call, c_join, c_ret,
                    received, calls >>

\* recv_buffer: read_rx.recv(); when it fails recv_buffer is Ok(None),
\* read_block's loop ends and fill_buf returns the active block's data.
RecvBufferedRx ==
    /\ c_pc = "recv_rx"
    /\ IF read_ch # << >>
         THEN /\ c_rx' = Some(Head(read_ch))
              /\ read_ch' = Tail(read_ch)
              /\ c_pc' = "recv_buf"
              /\ c_ret' = c_ret
         ELSE /\ ~ReaderAlive
              /\ c_pc' = "idle"
              /\ c_ret' = Slice(has_remaining)
              /\ UNCHANGED << c_rx, read_ch >>
    /\ UNCHANGED << op, worker_count, stream, tail, reader_pos, recycle, inflate,
                    buffered, rx_dropped, buffers, r_pc, r_buffer, w_pc,
                    w_item, state, position, buffer, c_call, c_join,
                    received, calls >>

\* A loop body that drops the previous buffer instead of recycling it.
ReadBlockBodyNoRecycle(j, b) ==
    /\ buffers' = [buffers EXCEPT ![b].block.position = position]
    /\ position' = position + buffers[b].block.size
    /\ buffer' = b
    /\ recycle' = recycle
    /\ received' = Append(received, [frame |-> j, tag |-> "Ok",
                                     position |-> position])
    /\ IF buffers[b].block.len > 0
         THEN /\ c_pc' = "idle"
              /\ c_ret' = "data"
         ELSE /\ c_pc' = "recv_rx"
              /\ c_ret' = c_ret

\* A loop body that ends the loop at every block, with or without data.
ReadBlockBodyStopsAtEmpty(j, b) ==
    /\ buffers' = [buffers EXCEPT ![b].block.position = position]
    /\ position' = position + buffers[b].block.size
    /\ buffer' = b
    /\ IF ReaderAlive
         THEN /\ Len(recycle) < ChannelCapacity
              /\ recycle' = Append(recycle, buffer)
         ELSE recycle' = recycle
    /\ received' = Append(received, [frame |-> j, tag |-> "Ok",
                                     position |-> position])
    /\ c_pc' = "idle"
    /\ c_ret' = Slice(buffers[b].block.len > 0)

\* A loop body that makes the buffer it received active and sends that same
\* buffer, not the previous one, to the recycle channel.
ReadBlockBodyRecyclesNew(j, b) ==
    /\ buffers' = [buffers EXCEPT ![b].block.position = position]
    /\ position' = position + buffers[b].block.size
    /\ buffer' = b
    /\ IF ReaderAlive
         THEN /\ Len(recycle) < ChannelCapacity
              /\ recycle' = Append(recycle, b)
         ELSE recycle' = recycle
    /\ received' = Append(received, [frame |-> j, tag |-> "Ok",
                                     position |-> position])
    /\ IF buffers[b].block.len > 0
         THEN /\ c_pc' = "idle"
              /\ c_ret' = "data"
         ELSE /\ c_pc' = "recv_rx"
              /\ c_ret' = c_ret

\* read_block's loop body for the buffer b received for frame j:
\*     buffer.block.set_position(self.position);
\*     self.position += buffer.block.size();
\*     let prev_buffer = mem::replace(&mut self.buffer, buffer);
\*     recycle_tx.send(prev_buffer).ok();
\*     if self.buffer.block.data().len() > 0 { break; }
ReadBlockBody(j, b) ==
    /\ buffers' = [buffers EXCEPT ![b].block.position = position]
    /\ position' = position + buffers[b].block.size
    /\ buffer' = b
    /\ IF ReaderAlive
         THEN /\ Len(recycle) < ChannelCapacity
              /\ recycle' = Append(recycle, buffer)
         ELSE recycle' = recycle
    /\ received' = Append(received, [frame |-> j, tag |-> "Ok",
                                     position |-> position])
    /\ IF buffers[b].block.len > 0
         THEN /\ c_pc' = "idle"
              /\ c_ret' = "data"
         ELSE /\ c_pc' = "recv_rx"
              /\ c_ret' = c_ret

\* recv_buffer: buffered_rx.recv(), then buffer.map(Some) and read_block's `?`.
RecvBuffer ==
    /\ c_pc = "recv_buf"
    /\ LET j == Unwrap(c_rx)
           msg == buffered[j]
       IN  CASE msg.tag = "Ok" ->
                  /\ ReadBlockBody(j, Unwrap(msg.buffer))
                  /\ buffered' = [buffered EXCEPT ![j] = NoMessage]
             [] msg.tag = "Err" ->
                  /\ received' = Append(received, [frame |-> j, tag |-> "Err",
                                                   position |-> position])
                  /\ buffered' = [buffered EXCEPT ![j] = NoMessage]
                  /\ c_pc' = "idle"
                  /\ c_ret' = "Err"
                  /\ UNCHANGED << buffers, position, buffer, recycle >>
             [] OTHER ->
                  /\ ~TxAlive(j)
                  /\ c_pc' = "idle"
                  /\ c_ret' = Slice(has_remaining)
                  /\ UNCHANGED << buffers, position, buffer, recycle,
                                  received, buffered >>
    /\ c_rx' = None
    /\ UNCHANGED << op, worker_count, stream, tail, reader_pos, inflate, read_ch,
                    rx_dropped, r_pc, r_buffer, w_pc, w_item, state, c_call,
                    c_join, calls >>

\* finish, up to drop(recycle_tx):
\*     let State::Running { reader_handle, mut inflater_handles, recycle_tx, .. }
\*         = self.state.take().unwrap();
\*     drop(recycle_tx);
\* The fields the pattern leaves out (read_rx) are dropped with the
\* statement.  Whether the messages of a channel are destroyed when its
\* last receiver goes or when its last endpoint goes is the channel
\* library's choice: both are allowed for.
FinishTake(call) ==
    /\ c_pc = "idle"
    /\ c_call' = call
    /\ c_ret' = IF Running THEN "none" ELSE "unwrap_none"
    /\ IF Running
         THEN /\ state' = "None"
              /\ c_pc' = "joining"
              /\ c_join' = 1
              /\ \E eager \in BOOLEAN :
                   IF eager \/ ~ReaderAlive
                     THEN /\ read_ch' = << >>
                          /\ rx_dropped' = rx_dropped \cup Range(read_ch)
                     ELSE UNCHANGED << read_ch, rx_dropped >>
         ELSE /\ c_pc' = "panicked"
              /\ UNCHANGED << state, c_join, read_ch, rx_dropped >>
    /\ UNCHANGED << op, worker_count, stream, tail, reader_pos, recycle, inflate,
                    buffered, buffers, r_pc, r_buffer, w_pc, w_item, position,
                    buffer, c_rx, received, calls >>

\* pub fn finish(&mut self) -> io::Result<R>
Finish == FinishTake("finish")

\* impl Drop: let _ = self.finish();
Drop == FinishTake("drop")

\* for handle in inflater_handles.drain(..) { handle.join().unwrap(); }
JoinInflater ==
    /\ c_pc = "joining"
    /\ c_join <= worker_count
    /\ ~InflaterAlive(c_join)
    /\ IF w_pc[c_join] = "done"
         THEN /\ c_join' = c_join + 1
              /\ c_pc' = c_pc
              /\ c_ret' = c_ret
         ELSE /\ c_pc' = "panicked"
              /\ c_join' = c_join
              /\ c_ret' = "join_panic"
    /\ UNCHANGED << op, worker_count, stream, tail, reader_pos, recycle, inflate,
                    read_ch, buffered, rx_dropped, buffers, r_pc, r_buffer,
                    w_pc, w_item, state, position, buffer, c_call, c_rx,
                    received, calls >>

\* reader_handle.join().unwrap(): finish returns the reader thread's result;
\* drop discards it and the reader is gone.
JoinReader ==
    /\ c_pc = "joining"
    /\ c_join > worker_count
    /\ ~ReaderAlive
    /\ IF r_pc = "panicked"
         THEN /\ c_pc' = "panicked"
              /\ c_ret' = "join_panic"
         ELSE /\ c_pc' = IF c_call = "drop" THEN "dropped" ELSE "idle"
              /\ c_ret' = r_pc
    /\ UNCHANGED << op, worker_count, stream, tail, reader_pos, recycle, inflate,
                    read_ch, buffered, rx_dropped, buffers, r_pc, r_buffer,
                    w_pc, w_item, state, position, buffer, c_call, c_rx,
                    c_join, received, calls >>

Next ==
    \/ ReaderRecv
    \/ ReaderSendInflate
    \/ ReaderSendRead
    \/ \E i \in Workers : InflaterRecv(i)
    \/ \E i \in Workers : InflaterSend(i)
    \/ FillBuf
    \/ Consume
    \/ RecvBufferedRx
    \/ RecvBuffer
    \/ Finish
    \/ Drop
    \/ JoinInflater
    \/ JoinReader

Spec == Init /\ [][Next]_vars

\* Every thread that can take a step eventually does: the reader thread and
\* the inflaters are operating-system threads, and a caller that has data
\* consumes it and one that has none reads on.
ReadingFairness ==
    /\ WF_vars(ReaderRecv \/ ReaderSendInflate \/ ReaderSendRead)
    /\ \A i \in 1..MaxWorkers :
         WF_vars(i \in Workers /\ (InflaterRecv(i) \/ InflaterSend(i)))
    /\ WF_vars(RecvBufferedRx \/ RecvBuffer)
    /\ WF_vars(FillBuf)
    /\ WF_vars(Consume)

\* The reader with a caller that keeps reading: it calls fill_buf and
\* consume, and neither finish nor drop.
NextReading ==
    \/ ReaderRecv
    \/ ReaderSendInflate
    \/ ReaderSendRead
    \/ \E i \in Workers : InflaterRecv(i)
    \/ \E i \in Workers : InflaterSend(i)
    \/ FillBuf
    \/ Consume
    \/ RecvBufferedRx
    \/ RecvBuffer

ReadingSpec == Init /\ [][NextReading]_vars /\ ReadingFairness

(***************************************************************************)
(* The codec functions.  They are pure: each is called on an input and     *)
(* gives an output.  op holds the call: its function, its argument and,    *)
(* once the function was applied, its output.                              *)
(*                                                                         *)
(* A u64 or usize is four 16-bit limbs, the most significant first, a u32  *)
(* two; a u16 and a u8 are numbers.                                        *)
(***************************************************************************)
\* The values a limb takes in the inputs tried: the ends of its range and
\* the neighbour of each.
LimbValues == {0, 1, 65534, 65535}

\* The u64 of a number below 2^31.
U64(n) == << 0, 0, n \div 65536, n % 65536 >>

RECURSIVE LimbsLess(_, _)
\* a < b for two unsigned integers of the same number of limbs.
LimbsLess(a, b) ==
    IF a = << >> THEN FALSE
    ELSE IF Head(a) # Head(b) THEN Head(a) < Head(b)
    ELSE LimbsLess(Tail(a), Tail(b))

RECURSIVE BitOr(_, _)
\* a | b on numbers.
BitOr(a, b) ==
    IF a = 0 THEN b
    ELSE IF b = 0 THEN a
    ELSE (IF a % 2 = 1 \/ b % 2 = 1 THEN 1 ELSE 0)
           + 2 * BitOr(a \div 2, b \div 2)

\* a | b on unsigned integers of the same number of limbs.
LimbsOr(a, b) == [k \in 1..Len(a) |-> BitOr(a[k], b[k])]

\* a << 16 on a u64: the most significant limb is shifted out.
Shl16(a) == << a[2], a[3], a[4], 0 >>

Ok(v) == [tag |-> "Ok", value |-> v]

Err(e) == [tag |-> "Err", kind |-> e]

\* The outcome of a call whose function has not been applied yet.
Pending == [tag |-> "pending"]

\* The call of function f on argument a.
Call(f, a) == [fn |-> f, arg |-> a, out |-> Pending]

\* Function f is called and has not been applied yet.
Called(f) == op.fn = f /\ op.out = Pending

\* The call once the function was applied and gave r.
Returned(r) == [op EXCEPT !.out = r]

\* Function f was applied.
Applied(f) == op.fn = f /\ op.out # Pending

(***************************************************************************)
(* bgzf::VirtualPosition.                                                  *)
(***************************************************************************)
\* The largest compressed offset: 2^48 - 1.
MAX_COMPRESSED_POSITION == << 0, 65535, 65535, 65535 >>

\* A packing that leaves the compressed offset where it is.
PackWithoutShift(compressed_offset, in_block_offset) ==
    IF LimbsLess(MAX_COMPRESSED_POSITION, compressed_offset)
      THEN Err("range")
      ELSE Ok(LimbsOr(compressed_offset, U64(in_block_offset)))

\* pack(compressed_offset: u64, in_block_offset: u16):
\* (compressed_offset << 16) | in_block_offset, a range error when the
\* compressed offset exceeds 48 bits.
pack(compressed_offset, in_block_offset) ==
    IF LimbsLess(MAX_COMPRESSED_POSITION, compressed_offset)
      THEN Err("range")
      ELSE Ok(LimbsOr(Shl16(compressed_offset), U64(in_block_offset)))

\* Pairs of virtual positions to pack: two compressed offsets, of 48 bits
\* or one past them, and two in-block offsets.
PackCalls ==
    LET Offsets == { << 0, a, b, c >> : a \in {0, 65535}, b \in {0, 65535},
                                        c \in LimbValues }
                   \cup { << 1, 0, 0, 0 >> }
    IN  { Call("pack", [c1 |-> c1, x |-> x, c2 |-> c2, y |-> y]) :
            c1 \in Offsets, c2 \in Offsets,
            x \in {0, 65535}, y \in {0, 65535} }

Pack ==
    /\ Called("pack")
    /\ op' = Returned([first |-> pack(op.arg.c1, op.arg.x),
                       second |-> pack(op.arg.c2, op.arg.y)])
    /\ UNCHANGED pvars

(***************************************************************************)
(* Integer conversions and little-endian writes (std, byteorder, tokio).   *)
(***************************************************************************)
\* `n as u16`: the low 16 bits, never an error.
u16_cast(n) == Ok(n[4])

\* u8::try_from(n: usize)
u8_try_from(n) ==
    IF n[1] = 0 /\ n[2] = 0 /\ n[3] = 0 /\ n[4] <= 255
      THEN Ok(n[4]) ELSE Err("TryFromIntError")

\* u16::try_from(n: usize)
u16_try_from(n) ==
    IF n[1] = 0 /\ n[2] = 0 /\ n[3] = 0
      THEN Ok(n[4]) ELSE Err("TryFromIntError")

\* u32::try_from(n: usize)
u32_try_from(n) ==
    IF n[1] = 0 /\ n[2] = 0
      THEN Ok(<< n[3], n[4] >>) ELSE Err("TryFromIntError")

\* 1 + n on usize.
AddOne(n) ==
    IF n[4] < 65535 THEN << n[1], n[2], n[3], n[4] + 1 >>
    ELSE IF n[3] < 65535 THEN << n[1], n[2], n[3] + 1, 0 >>
    ELSE IF n[2] < 65535 THEN << n[1], n[2] + 1, 0, 0 >>
    ELSE IF n[1] < 65535 THEN << n[1] + 1, 0, 0, 0 >>
    ELSE << 0, 0, 0, 0 >>

\* u32::from(n: u8) << 24
Shl24(n) == << (n * 256) % 65536, 0 >>

\* write_u16::<LittleEndian>(n): the bytes written.
write_u16_le(n) == << n % 256, n \div 256 >>

\* write_u32::<LittleEndian>(n), write_u32_le(n): the bytes written.
write_u32_le(n) == write_u16_le(n[2]) \o write_u16_le(n[1])

\* .map_err(|e| io::Error::new(io::ErrorKind::InvalidInput, e))
InvalidInput == Err("InvalidInput")

\* What a writer has got when a function returns: the function's result and
\* the fields written to the writer, also when the result is an error.
Written(result, fields) == [result |-> result, written |-> fields]

Field(name, bytes) == [field |-> name, bytes |-> bytes]

\* write_ref_alt that writes the reference alone when the record has no
\* alternate alleles.
write_ref_alt_without_missing(alternate_bases_len) ==
    [field |-> "ref_alt", ref |-> 1, missing |-> 0,
     alt |-> alternate_bases_len]

\* fn write_ref_alt: the values it writes with write_value, counted: the
\* reference, then one missing string when the record has no alternate
\* alleles, one string per alternate allele when it has some.
write_ref_alt(alternate_bases_len) ==
    IF alternate_bases_len = U64(0)
      THEN [field |-> "ref_alt", ref |-> 1, missing |-> 1, alt |-> U64(0)]
      ELSE [field |-> "ref_alt", ref |-> 1, missing |-> 0,
            alt |-> alternate_bases_len]

(***************************************************************************)
(* bcf::writer::record::site::write_site: the counts of the site.  A       *)
(* record is known by its INFO field count, its number of alternate        *)
(* alleles and its FORMAT key count if it has a FORMAT, a header by its    *)
(* sample count; the other fields of the site are taken to be written      *)
(* without error.                                                          *)
(***************************************************************************)
write_site(header, record) ==
    LET n_info == u16_try_from(record.info_len) IN
    IF n_info.tag = "Err" THEN Written(InvalidInput, << >>) ELSE
    LET f1 == << Field("n_info", write_u16_le(n_info.value)) >>
        alternate_bases_len ==
            IF record.alternate_bases_len = U64(0)
              THEN U64(1) ELSE record.alternate_bases_len
        n_allele == u16_try_from(AddOne(alternate_bases_len))
    IN
    IF n_allele.tag = "Err" THEN Written(InvalidInput, f1) ELSE
    LET f2 == Append(f1, Field("n_allele", write_u16_le(n_allele.value)))
        n_sample == u32_try_from(header.sample_names_len)
    IN
    IF n_sample.tag = "Err" THEN Written(InvalidInput, f2) ELSE
    LET n_fmt == IF record.format = None
                   THEN Ok(0)
                   ELSE u8_try_from(Unwrap(record.format))
    IN
    IF n_fmt.tag = "Err" THEN Written(InvalidInput, f2) ELSE
    LET n_fmt_sample == LimbsOr(Shl24(n_fmt.value), n_sample.value)
        f3 == Append(f2, Field("n_fmt_sample", write_u32_le(n_fmt_sample)))
    IN  Written(Ok("unit"),
                Append(f3, write_ref_alt(record.alternate_bases_len)))

\* Headers and records at and around the limits of the count fields.
WriteSiteCalls ==
    { Call("write_site",
           [header |-> [sample_names_len |-> s],
            record |-> [info_len |-> i, alternate_bases_len |-> a,
                        format |-> f]]) :
        s \in { U64(0), U64(1), << 0, 0, 256, 0 >>, << 0, 0, 65535, 65535 >>,
                << 0, 1, 0, 0 >> },
        i \in { U64(0), U64(65535), U64(65536) },
        a \in { U64(0), U64(1), U64(65534), U64(65535) },
        f \in { None, Some(U64(0)), Some(U64(255)), Some(U64(256)) } }

WriteSite ==
    /\ Called("write_site")
    /\ op' = Returned(write_site(op.arg.header, op.arg.record))
    /\ UNCHANGED pvars

(***************************************************************************)
(* bam::async::io::Writer::write_alignment_record.  A record is known by   *)
(* the length of its encoding, which encode leaves in self.buf.            *)
(***************************************************************************)
write_alignment_record(buf_len) ==
    LET block_size == u32_try_from(buf_len) IN
    IF block_size.tag = "Err" THEN Written(InvalidInput, << >>)
    ELSE Written(Ok("unit"),
                 << Field("block_size", write_u32_le(block_size.value)),
                    [field |-> "buf", len |-> buf_len] >>)

WriteAlignmentRecordCalls ==
    { Call("write_alignment_record", [buf_len |-> n]) :
        n \in { << 0, 0, h, l >> : h \in LimbValues, l \in LimbValues }
              \cup { << 0, 1, 0, 0 >>, << 0, 1, 0, 1 >>, << 1, 0, 0, 0 >>,
                     << 65535, 65535, 65535, 65535 >> } }

WriteAlignmentRecord ==
    /\ Called("write_alignment_record")
    /\ op' = Returned(write_alignment_record(op.arg.buf_len))
    /\ UNCHANGED pvars

(***************************************************************************)
(* vcf::record::Info.  A string is the sequence of its characters.  A      *)
(* field (record::info::field, KEY or KEY=value in VCF text) is a key and, *)
(* unless it is a flag, the text of its value.                             *)
(***************************************************************************)
\* Most fields of an Info tried.
MaxFields == 2

\* Longest field value tried.
MaxValueLen == 2

\* const DELIMITER: char = ';'
DELIMITER == ";"

\* record::MISSING_FIELD
MISSING_FIELD == << "." >>

\* The sequences over S of length at most n.
SeqsUpTo(S, n) == UNION { [1..k -> S] : k \in 0..n }

\* Keys, of one character each.
InfoKeys == {"A", "B"}

\* The characters of a value: a digit, and the delimiter, which a
\* Value::String may hold as any other character.
InfoValueChars == {"1", DELIMITER}

InfoFields ==
    [key : InfoKeys,
     value : {None} \cup { Some(v) : v \in SeqsUpTo(InfoValueChars, MaxValueLen)
                                            \ { << >> } }]

\* impl fmt::Display for Field
Field_fmt(f) ==
    IF f.value = None THEN << f.key >> ELSE << f.key, "=" >> \o Unwrap(f.value)

\* impl FromStr for Field
Field_from_str(t) ==
    IF t = << >> \/ Head(t) \notin InfoKeys THEN Err("InvalidField")
    ELSE IF Len(t) = 1 THEN Ok([key |-> Head(t), value |-> None])
    ELSE IF t[2] = "=" /\ Len(t) > 2
      THEN Ok([key |-> Head(t), value |-> Some(SubSeq(t, 3, Len(t)))])
    ELSE Err("InvalidField")

RECURSIVE Info_fmt_fields(_, _)
\* for (i, field) in self.iter().enumerate() {
\*     if i > 0 { write!(f, "{}", DELIMITER)? }
\*     write!(f, "{}", field)?;
\* }
Info_fmt_fields(info, i) ==
    IF i > Len(info) THEN << >>
    ELSE (IF i > 1 THEN << DELIMITER >> ELSE << >>)
           \o Field_fmt(info[i]) \o Info_fmt_fields(info, i + 1)

\* impl fmt::Display for Info
Info_fmt(info) ==
    IF info = << >> THEN MISSING_FIELD ELSE Info_fmt_fields(info, 1)

RECURSIVE split(_, _)
\* s.split(d): the pieces of s between the occurrences of d; one more piece
\* than there are occurrences.
split(s, d) ==
    IF \A k \in 1..Len(s) : s[k] # d THEN << s >>
    ELSE LET k == CHOOSE n \in 1..Len(s) :
                    s[n] = d /\ \A m \in 1..(n - 1) : s[m] # d
         IN  << SubSeq(s, 1, k - 1) >> \o split(SubSeq(s, k + 1, Len(s)), d)

\* .map(|s| s.parse()).collect::<Result<_, _>>(): the fields, or the first
\* error.
collect(results) ==
    IF \E k \in 1..Len(results) : results[k].tag = "Err"
      THEN Err("InvalidField")
      ELSE Ok([k \in 1..Len(results) |-> results[k].value])

\* impl FromStr for Info
Info_from_str(s) ==
    IF s = << >> THEN Err("Empty")
    ELSE IF s = MISSING_FIELD THEN Ok(<< >>)
    ELSE LET pieces == split(s, DELIMITER)
         IN  collect([k \in 1..Len(pieces) |-> Field_from_str(pieces[k])])

\* Info values to display and parse back.
InfoToStringCalls ==
    { Call("info_to_string", [info |-> i]) :
        i \in SeqsUpTo(InfoFields, MaxFields) }

\* s = info.to_string(); s.parse::<Info>()
InfoToString ==
    /\ Called("info_to_string")
    /\ op' = Returned([text |-> Info_fmt(op.arg.info),
                       parsed |-> Info_from_str(Info_fmt(op.arg.info))])
    /\ UNCHANGED pvars

\* Texts to parse: the empty string, ".", and others.
InfoFromStrCalls ==
    { Call("info_from_str", [s |-> s]) :
        s \in SeqsUpTo({"A", "=", "1", DELIMITER, "."}, 2)
              \cup { << "A", "=", "1" >>, << "A", DELIMITER, "B" >> } }

InfoFromStr ==
    /\ Called("info_from_str")
    /\ op' = Returned(Info_from_str(op.arg.s))
    /\ UNCHANGED pvars

(***************************************************************************)
(* cram::reader::record::ExternalDataReaders.  A reader is known by its    *)
(* name; low_readers is the array of 64 options, indexed from 0, and       *)
(* high_readers the hash map, a function on the ids it holds.              *)
(***************************************************************************)
\* Most insert calls tried.
MaxInserts == 2

\* i32::MIN
I32_MIN == -2147483647 - 1

\* i32::MAX
I32_MAX == 2147483647

\* Block content ids at the ends of i32 and on both sides of the ends of
\* the array.
ContentIds == {I32_MIN, -1, 0, 63, 64, I32_MAX}

Readers == {"r1", "r2"}

\* ExternalDataReaders::new
ExternalDataReaders_new ==
    [low_readers |-> [i \in 0..63 |-> None],
     high_readers |-> [i \in {} |-> None]]

\* ExternalDataReaders::insert
insert(self, id, reader) ==
    IF id \in 0..63
      THEN [self EXCEPT !.low_readers[id] = Some(reader)]
      ELSE [self EXCEPT !.high_readers =
              [i \in DOMAIN self.high_readers \cup {id} |->
                 IF i = id THEN reader ELSE self.high_readers[i]]]

\* A get_mut that looks ids up in the array below 63 only.
get_mut_below_63(self, id) ==
    IF id \in 0..62
      THEN self.low_readers[id]
      ELSE IF id \in DOMAIN self.high_readers
             THEN Some(self.high_readers[id]) ELSE None

\* ExternalDataReaders::get_mut
get_mut(self, id) ==
    IF id \in 0..63
      THEN self.low_readers[id]
      ELSE IF id \in DOMAIN self.high_readers
             THEN Some(self.high_readers[id]) ELSE None

RECURSIVE insert_all(_, _)
\* The readers after the insert calls of a sequence, in order.
insert_all(self, inserts) ==
    IF inserts = << >> THEN self
    ELSE insert_all(insert(self, Head(inserts).id, Head(inserts).reader),
                    Tail(inserts))

\* Sequences of insert calls on new readers, followed by one get_mut.
ExternalDataReadersCalls ==
    { Call("external_data_readers", [inserts |-> i, id |-> id]) :
        i \in SeqsUpTo([id : ContentIds, reader : Readers], MaxInserts),
        id \in ContentIds }

ExternalDataReadersGetMut ==
    /\ Called("external_data_readers")
    /\ op' = Returned([reader |->
                         get_mut(insert_all(ExternalDataReaders_new,
                                            op.arg.inserts), op.arg.id)])
    /\ UNCHANGED pvars

(***************************************************************************)
(* cram::reader::container::block::read_block.  src is the sequence of the *)
(* bytes that remain; a function that reads from src gives its result and  *)
(* the bytes it leaves.  A call that the bytes crate answers with a panic  *)
(* gives Panic.                                                            *)
(***************************************************************************)
Panic == [tag |-> "Panic"]

UnexpectedEof == Err("UnexpectedEof")

InvalidData == Err("InvalidData")

\* CompressionMethod::try_from(n: u8): the methods are numbered from 0 to 8.
CompressionMethod_try_from(n) ==
    IF n <= 8 THEN Ok(n) ELSE Err("TryFromByteError")

\* ContentType::try_from(n: u8): the content types are numbered from 0 to 5.
ContentType_try_from(n) ==
    IF n <= 5 THEN Ok(n) ELSE Err("TryFromByteError")

\* usize::try_from(n: i32)
usize_try_from(n) ==
    IF n >= 0 THEN Ok(n) ELSE Err("TryFromIntError")

\* The value of an ITF8 integer of n bytes b.  The 5-byte form fills all 32
\* bits of the i32; its first byte's bit 3 is the sign.
itf8_value(b, n) ==
    CASE n = 1 -> b[1]
      [] n = 2 -> (b[1] - 128) * 256 + b[2]
      [] n = 3 -> (b[1] - 192) * 65536 + b[2] * 256 + b[3]
      [] n = 4 -> (b[1] - 224) * 16777216 + b[2] * 65536 + b[3] * 256 + b[4]
      [] OTHER ->
           LET low == b[2] * 1048576 + b[3] * 4096 + b[4] * 16 + (b[5] % 16)
               high == b[1] % 16
           IN  IF high < 8
                 THEN high * 268435456 + low
                 ELSE ((high - 8) * 268435456 + low) + I32_MIN

\* reader::num::get_itf8: the first byte tells the number of bytes; an
\* UnexpectedEof error when src ends before the last of them.
get_itf8(src) ==
    IF src = << >> THEN [result |-> UnexpectedEof, src |-> src]
    ELSE LET n == IF src[1] < 128 THEN 1
                  ELSE IF src[1] < 192 THEN 2
                  ELSE IF src[1] < 224 THEN 3
                  ELSE IF src[1] < 240 THEN 4
                  ELSE 5
         IN  IF Len(src) < n
               THEN [result |-> UnexpectedEof, src |-> << >>]
               ELSE [result |-> Ok(itf8_value(src, n)),
                     src |-> SubSeq(src, n + 1, Len(src))]

\* get_itf8(src).and_then(|n| usize::try_from(n).map_err(InvalidData))
get_itf8_as_usize(src) ==
    LET r == get_itf8(src)
    IN  IF r.result.tag = "Ok" /\ usize_try_from(r.result.value).tag = "Err"
          THEN [result |-> InvalidData, src |-> r.src]
          ELSE r

\* Bytes::split_to(at): the first at bytes; a panic when at > len.
split_to(src, at) ==
    IF at > Len(src) THEN Panic ELSE Ok(SubSeq(src, 1, at))

\* Buf::get_u32_le: a u32 of the first four bytes; a panic when there are
\* fewer.
get_u32_le(src) ==
    IF Len(src) < 4 THEN Panic
    ELSE Ok(<< src[4] * 256 + src[3], src[2] * 256 + src[1] >>)

\* The rest of read_block once the sizes were read, without the test that
\* src holds size_in_bytes bytes.
read_block_data_unchecked(method, content_type, id, size, raw_size, src) ==
    LET data == split_to(src, size) IN
    IF data = Panic THEN Panic ELSE
    LET rest == SubSeq(src, size + 1, Len(src)) IN
    IF Len(rest) < 4 THEN UnexpectedEof ELSE
    LET crc32 == get_u32_le(rest) IN
    IF crc32 = Panic THEN Panic ELSE
    Ok([compression_method |-> method, content_type |-> content_type,
        content_id |-> id, uncompressed_len |-> raw_size,
        data |-> data.value, crc32 |-> crc32.value])

\* read_block from `if src.remaining() < size_in_bytes` on.
read_block_data(method, content_type, id, size, raw_size, src) ==
    IF Len(src) < size THEN UnexpectedEof ELSE
    LET data == split_to(src, size) IN
    IF data = Panic THEN Panic ELSE
    LET rest == SubSeq(src, size + 1, Len(src)) IN
    IF Len(rest) < 4 THEN UnexpectedEof ELSE
    LET crc32 == get_u32_le(rest) IN
    IF crc32 = Panic THEN Panic ELSE
    Ok([compression_method |-> method, content_type |-> content_type,
        content_id |-> id, uncompressed_len |-> raw_size,
        data |-> data.value, crc32 |-> crc32.value])

\* pub fn read_block(src: &mut Bytes) -> io::Result<Block>
read_block(src) ==
    IF src = << >> THEN UnexpectedEof ELSE
    LET method == CompressionMethod_try_from(Head(src))
        src1 == Tail(src)
    IN
    IF method.tag = "Err" THEN InvalidData ELSE
    IF src1 = << >> THEN UnexpectedEof ELSE
    LET block_content_type_id == ContentType_try_from(Head(src1))
        src2 == Tail(src1)
    IN
    IF block_content_type_id.tag = "Err" THEN InvalidData ELSE
    LET block_content_id == get_itf8(src2) IN
    IF block_content_id.result.tag = "Err" THEN block_content_id.result ELSE
    LET size_in_bytes == get_itf8_as_usize(block_content_id.src) IN
    IF size_in_bytes.result.tag = "Err" THEN size_in_bytes.result ELSE
    LET raw_size_in_bytes == get_itf8_as_usize(size_in_bytes.src) IN
    IF raw_size_in_bytes.result.tag = "Err" THEN raw_size_in_bytes.result ELSE
    read_block_data(method.value, block_content_type_id.value,
                    block_content_id.result.value, size_in_bytes.result.value,
                    raw_size_in_bytes.result.value, raw_size_in_bytes.src)

\* The prefixes of s, s included.
Prefixes(s) == { SubSeq(s, 1, n) : n \in 0..Len(s) }

\* Blocks in bytes: the block of the test; one with a content id of 2
\* bytes, no data and a raw size of 5 bytes; one whose size is 300; and
\* blocks with a method, a content type or a size that is not valid.
BlockBytes ==
    { << 0, 4, 1, 4, 4, 110, 100, 108, 115, 253, 56, 39, 181 >>,
      << 1, 0, 128, 200, 0, 240, 0, 0, 16, 0, 1, 2, 3, 4 >>,
      << 0, 4, 1, 129, 44, 4, 110, 100, 108, 115, 253, 56, 39, 181 >>,
      << 255, 4, 1, 1, 1, 7, 1, 2, 3, 4 >>,
      << 0, 255, 1, 1, 1, 7, 1, 2, 3, 4 >>,
      << 0, 4, 1, 255, 255, 255, 255, 15, 1, 7, 1, 2, 3, 4 >>,
      << 0, 4, 1, 1, 255, 255, 255, 255, 15, 7, 1, 2, 3, 4 >> }

\* Every block in full and cut short at every byte.
ReadBlockCalls ==
    { Call("read_block", [src |-> s]) :
        s \in UNION { Prefixes(b) : b \in BlockBytes } }

ReadBlock ==
    /\ Called("read_block")
    /\ op' = Returned(read_block(op.arg.src))
    /\ UNCHANGED pvars

(***************************************************************************)
(* bam::async::io::Writer, with its two fields: inner, the bytes written   *)
(* to the inner writer, and buf, the scratch buffer.  A record is known by *)
(* the bytes encode appends for it and by whether encode then fails; the   *)
(* writes to inner are taken to succeed.                                   *)
(***************************************************************************)
MaxRecords == 2

\* The encodings of records: an empty one, one of one byte and one of two.
RecordEncodings == { << >>, << 7 >>, << 9, 7 >> }

\* Records whose encoding succeeds, and records for which encode returns an
\* error after the bytes it has appended.
AlignmentRecords == [bytes : RecordEncodings, fails : BOOLEAN]

\* impl From<W> for Writer<W>
Writer_from(inner) == [inner |-> inner, buf |-> << >>]

\* record::codec::encode(dst, header, record): appends to dst.
encode(dst, record) ==
    [dst |-> dst \o record.bytes,
     result |-> IF record.fails THEN InvalidData ELSE Ok("unit")]

\* write_alignment_record without self.buf.clear().
write_alignment_record_without_clear(self, record) ==
    LET encoded == encode(self.buf, record)
        buf == encoded.dst
        block_size == u32_try_from(U64(Len(buf)))
    IN
    IF encoded.result.tag = "Err"
      THEN [self |-> [self EXCEPT !.buf = buf], result |-> encoded.result]
    ELSE IF block_size.tag = "Err"
      THEN [self |-> [self EXCEPT !.buf = buf], result |-> InvalidInput]
    ELSE [self |-> [inner |-> self.inner \o write_u32_le(block_size.value)
                                         \o buf,
                    buf |-> buf],
          result |-> Ok("unit")]

\* Writer::write_alignment_record(&mut self, header, record), the writer
\* after the call and the call's result.
Writer_write_alignment_record(self, record) ==
    LET cleared == << >>
        encoded == encode(cleared, record)
        buf == encoded.dst
        block_size == u32_try_from(U64(Len(buf)))
    IN
    IF encoded.result.tag = "Err"
      THEN [self |-> [self EXCEPT !.buf = buf], result |-> encoded.result]
    ELSE IF block_size.tag = "Err"
      THEN [self |-> [self EXCEPT !.buf = buf], result |-> InvalidInput]
    ELSE [self |-> [inner |-> self.inner \o write_u32_le(block_size.value)
                                         \o buf,
                    buf |-> buf],
          result |-> Ok("unit")]

RECURSIVE write_alignment_records(_, _, _)
\* The writer after one write_alignment_record call per record, in order,
\* and the results of the calls.
write_alignment_records(self, records, results) ==
    IF records = << >> THEN [self |-> self, results |-> results]
    ELSE LET call == Writer_write_alignment_record(self, Head(records))
         IN  write_alignment_records(call.self, Tail(records),
                                     Append(results, call.result))

\* Sequences of write_alignment_record calls on a new writer.
WriterCalls ==
    { Call("Writer", [records |-> r]) :
        r \in SeqsUpTo(AlignmentRecords, MaxRecords) }

WriterWriteAlignmentRecords ==
    /\ Called("Writer")
    /\ op' = Returned(write_alignment_records(Writer_from(<< >>),
                                              op.arg.records, << >>))
    /\ UNCHANGED pvars

(***************************************************************************)
(* vcf::header::parser::record::value::map::alternative_allele.  A map is  *)
(* the sequence of its fields, each the tag parse_key gives and the value  *)
(* parse_value gives, which is known by its place in the map; the text of  *)
(* the map is taken to be well formed and the value of ID to be a symbol.  *)
(***************************************************************************)
MaxMapFields == 4

\* tag::ID, tag::DESCRIPTION and two other tags.
AlleleTags == {"ID", "Description", "X", "Y"}

\* The fields of a map with the given tags.
AlleleFields(tags) ==
    [k \in 1..Len(tags) |-> [tag |-> tags[k], value |-> k]]

ParseError(kind, tag) == [tag |-> "Err", kind |-> kind, of |-> tag]

DuplicateTag(tag) == ParseError("DuplicateTag", tag)

MissingId == ParseError("MissingId", "none")

MissingDescription == ParseError("MissingDescription", "none")

\* try_replace that keeps the later value without an error.
try_replace_silently(option, tag, value) ==
    [option |-> Some(value), result |-> Ok("unit")]

\* fn try_replace: option.replace(value), an error when option held a value.
try_replace(option, tag, value) ==
    [option |-> Some(value),
     result |-> IF option = None THEN Ok("unit") ELSE DuplicateTag(tag)]

\* fn try_insert: other_fields is an IndexMap, here the sequence of its
\* entries in the order of their insertion.
try_insert(other_fields, tag, value) ==
    IF \A k \in 1..Len(other_fields) : other_fields[k].tag # tag
      THEN [other_fields |->
                Append(other_fields, [tag |-> tag, value |-> value]),
            result |-> Ok("unit")]
      ELSE [other_fields |->
                SelectSeq(other_fields, LAMBDA e : e.tag # tag),
            result |-> DuplicateTag(tag)]

RECURSIVE parse_fields(_, _, _, _)
\* The loop of parse_alternative_allele and what follows it: src is the
\* fields that remain, the first of them the one parse_key reads next.
parse_fields(src, id, description, other_fields) ==
    LET field == Head(src)
        replaced_id == try_replace(id, "ID", field.value)
        replaced_description ==
            try_replace(description, "Description", field.value)
        inserted == try_insert(other_fields, field.tag, field.value)
        result == CASE field.tag = "ID" -> replaced_id.result
                    [] field.tag = "Description" -> replaced_description.result
                    [] OTHER -> inserted.result
        id1 == IF field.tag = "ID" THEN replaced_id.option ELSE id
        description1 == IF field.tag = "Description"
                          THEN replaced_description.option ELSE description
        other_fields1 == IF field.tag \in {"ID", "Description"}
                           THEN other_fields ELSE inserted.other_fields
    IN
    IF result.tag = "Err" THEN result
    ELSE IF Tail(src) # << >>
      THEN parse_fields(Tail(src), id1, description1, other_fields1)
    ELSE IF id1 = None THEN MissingId
    ELSE IF description1 = None THEN MissingDescription
    ELSE Ok([id |-> Unwrap(id1),
             description |-> Unwrap(description1),
             other_fields |-> other_fields1])

\* pub fn parse_alternative_allele(src)
parse_alternative_allele(src) ==
    parse_fields(src, None, None, << >>)

\* Maps of one field and more.
ParseAlternativeAlleleCalls ==
    { Call("parse_alternative_allele", [src |-> AlleleFields(t)]) :
        t \in SeqsUpTo(AlleleTags, MaxMapFields) \ { << >> } }

ParseAlternativeAllele ==
    /\ Called("parse_alternative_allele")
    /\ op' = Returned(parse_alternative_allele(op.arg.src))
    /\ UNCHANGED pvars

(***************************************************************************)
(* The codec functions, each called once on one of the inputs tried.  No   *)
(* reader is at work: its variables stay as with_worker_count leaves them  *)
(* for one worker on the empty stream.                                     *)
(***************************************************************************)
CodecCalls ==
    PackCalls \cup WriteSiteCalls \cup WriteAlignmentRecordCalls
    \cup InfoToStringCalls \cup InfoFromStrCalls
    \cup ExternalDataReadersCalls \cup ReadBlockCalls
    \cup WriterCalls \cup ParseAlternativeAlleleCalls

CodecInit ==
    /\ worker_count = 1
    /\ stream = << >>
    /\ tail = "eof"
    /\ PipelineInit
    /\ op \in CodecCalls

CodecNext ==
    \/ Pack
    \/ WriteSite
    \/ WriteAlignmentRecord
    \/ InfoToString
    \/ InfoFromStr
    \/ ExternalDataReadersGetMut
    \/ ReadBlock
    \/ WriterWriteAlignmentRecords
    \/ ParseAlternativeAllele

CodecSpec == CodecInit /\ [][CodecNext]_vars

(***************************************************************************)
(* Definitions the properties share.                                       *)
(***************************************************************************)
Min(a, b) == IF a < b THEN a ELSE b

\* The frames of the history of recv_buffer outcomes that decoded: the
\* blocks read_block made active, in the order it did.
ActivatedFrames ==
    LET ok == SelectSeq(received, LAMBDA r : r.tag = "Ok")
    IN  [i \in 1..Len(ok) |-> ok[i].frame]

\* The frames among the first n of the stream that decode, in stream order.
DecodableFrames(n) ==
    SelectSeq([j \in 1..n |-> j], LAMBDA j : parse_block_ok(j))

\* Every place outside the recycle channel where a Buffer is.
BuffersOutsidePool ==
    { << "reader", b >> : b \in Range(r_buffer) }
    \cup { << "inflate channel", k >> : k \in 1..Len(inflate) }
    \cup { << "inflater", i >> :
             i \in { w \in Workers : /\ IsSome(w_item[w])
                                     /\ Unwrap(w_item[w]).result.tag = "Ok" } }
    \cup { << "result channel", j >> :
             j \in { f \in FrameIds : buffered[f].tag = "Ok" } }
    \cup { << "active", buffer >> }

AllThreadsExited == ~ReaderAlive /\ \A i \in Workers : ~InflaterAlive(i)

\* finish() was called on a Running reader and has returned.
FinishReturned == c_call = "finish" /\ c_pc = "idle" /\ c_ret \in {"Ok", "Err"}

\* The caller waits in read_block and no thread can take a step: the reader
\* waits for a buffer only the caller can recycle, the inflaters for work
\* only the reader can send, the caller for a receiver only the reader can
\* queue.
ReadBlocksForever ==
    /\ c_pc = "recv_rx" /\ read_ch = << >> /\ ReaderAlive
    /\ r_pc = "recv" /\ recycle = << >> /\ Running
    /\ inflate = << >> /\ \A i \in Workers : w_pc[i] = "recv"

(***************************************************************************)
(* C1.  Order preservation: whatever the worker count and the order in     *)
(* which the inflaters complete, the k-th outcome recv_buffer hands to     *)
(* read_block is that of the k-th frame the reader thread read, and the    *)
(* blocks read_block made active are the decodable ones among them, each   *)
(* once and in stream order; at end of stream none the reader read is      *)
(* missing.                                                                *)
(***************************************************************************)
C1_OrderPreservation ==
    /\ Len(received) <= reader_pos
    /\ \A k \in 1..Len(received) : received[k].frame = k
    /\ ActivatedFrames = DecodableFrames(Len(received))
    /\ buffers[buffer].block.frame =
         IF ActivatedFrames = << >> THEN 0
         ELSE ActivatedFrames[Len(ActivatedFrames)]
    /\ (c_call = "fill_buf" /\ c_pc = "idle" /\ c_ret = "empty")
         => Len(received) = reader_pos

\* Frame 3 completed before frame 2 while the caller, having had frame 1,
\* waits for frame 2.
C1_Witness ==
    /\ worker_count = 2
    /\ Len(received) = 1
    /\ c_pc = "recv_buf" /\ c_rx = Some(2)
    /\ buffered[2].tag = "none"
    /\ buffered[3].tag = "Ok"

(***************************************************************************)
(* C2.  Error isolation: once a read has returned the decode error of a    *)
(* frame, no later read of the caller blocks forever.                      *)
(***************************************************************************)
C2_ErrorIsolation ==
    (\E k \in 1..Len(received) : received[k].tag = "Err")
        => ~ReadBlocksForever

(***************************************************************************)
(* C3.  finish() on a Running reader returns: it never ends in a panic of  *)
(* a join, and when it has returned every inflater and the reader thread   *)
(* have exited and the value returned is the reader thread's result.       *)
(***************************************************************************)
C3_FinishReturns ==
    /\ c_call = "finish" => c_ret # "join_panic"
    /\ FinishReturned => AllThreadsExited /\ c_ret = r_pc

(***************************************************************************)
(* C4.  Dropping a Running reader runs the shutdown of finish() to its     *)
(* end: every inflater and the reader thread are joined (no join is        *)
(* abandoned), and once drop has returned the recycle sender is gone and   *)
(* no thread is alive.                                                     *)
(***************************************************************************)
C4_DropShutsDown ==
    /\ c_call = "drop" => c_ret # "join_panic"
    /\ (c_call = "drop" /\ c_pc = "dropped")
         => ~Running /\ AllThreadsExited /\ c_join > worker_count

(***************************************************************************)
(* C5.  Backpressure on frames: the frames the reader thread has read and  *)
(* recv_buffer has not yet handed to read_block are never more than        *)
(* worker_count.                                                           *)
(***************************************************************************)
C5_FramesInFlight == reader_pos - Len(received) <= worker_count

\* worker_count frames in flight, after the pool was recycled into once.
C5_Witness ==
    /\ worker_count = 2
    /\ Len(received) >= 1
    /\ reader_pos - Len(received) = worker_count

(***************************************************************************)
(* C6.  Backpressure on buffers, as stated: the buffers outside the        *)
(* recycle channel, the caller's active buffer among them, are never more  *)
(* than worker_count.                                                      *)
(***************************************************************************)
C6_BuffersOutsidePool == Cardinality(BuffersOutsidePool) <= worker_count

(***************************************************************************)
(* C6, amended.  The buffers outside the recycle channel are never more    *)
(* than worker_count + 1: the worker_count buffers of the pool and the     *)
(* Buffer::default() the reader starts with as its active buffer.          *)
(***************************************************************************)
C6_BuffersOutsidePoolAmended ==
    Cardinality(BuffersOutsidePool) <= worker_count + 1

\* The pool is empty: every buffer is out, one of them a decoded result.
C6_Witness ==
    /\ worker_count = 2
    /\ Cardinality(BuffersOutsidePool) = worker_count + 1
    /\ \E j \in FrameIds : buffered[j].tag = "Ok"

(***************************************************************************)
(* C7.  Producer error surfacing: a finish() of a Running reader ends by   *)
(* returning Err when the reader thread's read of the stream failed, and   *)
(* by returning Ok otherwise; the reader thread fails only at the frame    *)
(* where the stream does.                                                  *)
(***************************************************************************)
C7_ProducerErrorSurfacing ==
    /\ r_pc = "Err" => reader_pos = Len(stream) /\ tail = "io_error"
    /\ (c_call = "finish" /\ c_pc \in {"idle", "panicked"}
                          /\ c_ret # "unwrap_none")
         => c_ret = (IF r_pc = "Err" THEN "Err" ELSE "Ok")

(***************************************************************************)
(* C8.  Position stamping: every block read_block makes active is stamped  *)
(* with the offset at which its frame begins, the sum of the on-disk sizes *)
(* of the frames before it, also after a read returned a decode error.     *)
(***************************************************************************)
C8_PositionStamping ==
    /\ \A k \in 1..Len(received) :
         received[k].tag = "Ok"
           => received[k].position = SumSizes(stream, received[k].frame - 1)
    /\ buffers[buffer].block.frame # 0
         => buffers[buffer].block.position =
              SumSizes(stream, buffers[buffer].block.frame - 1)

(***************************************************************************)
(* C9.  End of stream: on a stream of valid non-empty data frames, with or *)
(* without a trailing EOF marker, that ends without an I/O error, a caller *)
(* that keeps reading is never returned an error, is never told the stream *)
(* has ended before it was handed every frame, has every read return, and  *)
(* eventually has fill_buf return an empty slice after the data of all the *)
(* frames, in order.                                                       *)
(***************************************************************************)
ValidStream ==
    /\ tail = "eof"
    /\ \A j \in 1..Len(stream) :
         \/ stream[j].kind = "data"
         \/ j = Len(stream) /\ stream[j].kind = "empty"

EndOfStreamReturned == c_call = "fill_buf" /\ c_pc = "idle" /\ c_ret = "empty"

CleanEnd ==
    /\ EndOfStreamReturned
    /\ Len(received) = Len(stream)
    /\ ActivatedFrames = [j \in 1..Len(stream) |-> j]
    /\ ~has_remaining

C9_EndOfStream ==
    /\ [](ValidStream => c_ret # "Err")
    /\ [](ValidStream /\ EndOfStreamReturned => CleanEnd)
    /\ (ValidStream /\ c_pc \in {"recv_rx", "recv_buf"}) ~> (c_pc = "idle")
    /\ ValidStream ~> CleanEnd

\* Two data frames and the EOF marker, read to the end by one worker.
C9_Witness ==
    /\ worker_count = 1
    /\ Len(stream) = 3 /\ stream[3].kind = "empty"
    /\ ValidStream
    /\ CleanEnd

(***************************************************************************)
(* C10.  Deterministic final reader position: when finish() returns, the   *)
(* number of frames the reader thread took from the inner reader is a      *)
(* function of the stream, the worker count and the number of read_block   *)
(* calls the caller made, whatever the interleaving of the threads: every  *)
(* buffer of the pool and every buffer the caller recycled has been used   *)
(* for one frame, as far as the stream has frames.                         *)
(***************************************************************************)
RECURSIVE ReadBlockStop(_, _)
\* The number of frames handed over when a read_block that starts after n
\* frames returns: it goes on over empty blocks and stops at a block with
\* data, at a decode error or at the end of the stream.
ReadBlockStop(s, n) ==
    IF n >= Len(s) THEN n
    ELSE IF s[n + 1].kind = "empty" THEN ReadBlockStop(s, n + 1)
    ELSE n + 1

RECURSIVE ReceivedAfter(_, _)
\* The number of frames handed over by c read_block calls.
ReceivedAfter(s, c) ==
    IF c = 0 THEN 0 ELSE ReadBlockStop(s, ReceivedAfter(s, c - 1))

ExpectedReaderPos(s, n, c) ==
    Min(Len(s),
        n + Cardinality({ j \in 1..ReceivedAfter(s, c) : s[j].kind # "bad" }))

C10_DeterministicFinalPosition ==
    FinishReturned => reader_pos = ExpectedReaderPos(stream, worker_count, calls)

\* finish() returned after one block was read, with frames left unread.
C10_Witness ==
    /\ FinishReturned
    /\ calls = 1
    /\ Len(received) = 1
    /\ reader_pos < Len(stream)

(***************************************************************************)
(* C11.  The pipeline state is one-way: once finish() (or drop) has taken  *)
(* the Running state, no step of any operation makes the state Running     *)
(* again, and a reader or inflater thread that has ended is never running  *)
(* again; so Running is left at most once.                                 *)
(***************************************************************************)
C11_OneWayShutdown ==
    [][ /\ ~Running => ~Running'
        /\ ~ReaderAlive => ~ReaderAlive'
        /\ \A i \in Workers : ~InflaterAlive(i) => ~InflaterAlive(i)'
      ]_vars

\* fill_buf was called on a reader whose state finish had taken, after all
\* threads had ended.
C11_Witness ==
    /\ state = "None"
    /\ AllThreadsExited
    /\ c_call = "fill_buf"
    /\ c_ret = "unwrap_none"

(***************************************************************************)
(* C12.  Virtual position ordering: when pack is given two compressed      *)
(* offsets c1 < c2 of 48 bits and any two in-block offsets x, y of 16      *)
(* bits, the packed value of (c1, x) is strictly less than that of         *)
(* (c2, y).                                                                *)
(***************************************************************************)
C12_VirtualPositionOrdering ==
    Applied("pack") =>
        LET a == op.arg
            fits == /\ ~LimbsLess(MAX_COMPRESSED_POSITION, a.c1)
                    /\ ~LimbsLess(MAX_COMPRESSED_POSITION, a.c2)
        IN  fits /\ LimbsLess(a.c1, a.c2) =>
                /\ op.out.first.tag = "Ok"
                /\ op.out.second.tag = "Ok"
                /\ LimbsLess(op.out.first.value, op.out.second.value)

\* The smaller compressed offset was packed with the largest in-block
\* offset, the next compressed offset with the smallest; the compressed
\* offsets differ in their least significant bit only and fill 48 bits.
C12_Witness ==
    /\ Applied("pack")
    /\ op.arg.c1 = << 0, 65535, 65535, 65534 >>
    /\ op.arg.x = 65535
    /\ op.arg.c2 = << 0, 65535, 65535, 65535 >>
    /\ op.arg.y = 0
    /\ op.out.second.value = << 65535, 65535, 65535, 0 >>

(***************************************************************************)
(* C13.  Capacity errors: write_site fails with InvalidInput when the INFO *)
(* field count or the allele count is above u16::MAX, the sample count     *)
(* above u32::MAX or the FORMAT key count above u8::MAX, and               *)
(* write_alignment_record when the encoded record is longer than u32::MAX  *)
(* bytes; a count that was written was written whole: the bytes of n_info, *)
(* n_allele and block_size read back as the count.                         *)
(***************************************************************************)
\* The u64 two little-endian bytes stand for, and four.
ReadLE(bytes) ==
    IF Len(bytes) = 2
      THEN << 0, 0, 0, bytes[1] + 256 * bytes[2] >>
      ELSE << 0, 0, bytes[3] + 256 * bytes[4], bytes[1] + 256 * bytes[2] >>

\* The number of alleles of a record: the reference and its alternate
\* alleles, or the reference and one missing value.
AlleleCount(record) ==
    IF record.alternate_bases_len = U64(0)
      THEN U64(2) ELSE AddOne(record.alternate_bases_len)

\* The count each field of a site stands for.
SiteCount(header, record, name) ==
    CASE name = "n_info" -> record.info_len
      [] name = "n_allele" -> AlleleCount(record)

C13_CapacityErrors ==
    /\ Applied("write_site") =>
         LET header == op.arg.header
             record == op.arg.record
             too_large ==
                 \/ LimbsLess(U64(65535), record.info_len)
                 \/ LimbsLess(U64(65535), AlleleCount(record))
                 \/ LimbsLess(<< 0, 0, 65535, 65535 >>, header.sample_names_len)
                 \/ /\ IsSome(record.format)
                    /\ LimbsLess(U64(255), Unwrap(record.format))
         IN  /\ too_large <=> op.out.result = InvalidInput
             /\ \A k \in 1..Len(op.out.written) :
                  LET f == op.out.written[k] IN
                  f.field \in {"n_info", "n_allele"} =>
                      ReadLE(f.bytes) = SiteCount(header, record, f.field)
    /\ Applied("write_alignment_record") =>
         /\ LimbsLess(<< 0, 0, 65535, 65535 >>, op.arg.buf_len)
              <=> op.out.result = InvalidInput
         /\ op.out.result.tag = "Ok" =>
              /\ ReadLE(op.out.written[1].bytes) = op.arg.buf_len
              /\ op.out.written[2].len = op.arg.buf_len

\* write_site wrote the largest INFO field count and allele count that fit
\* and failed at a sample count of 2^32.
C13_Witness ==
    /\ Applied("write_site")
    /\ op.arg.record.info_len = U64(65535)
    /\ op.arg.record.alternate_bases_len = U64(65534)
    /\ op.arg.header.sample_names_len = << 0, 1, 0, 0 >>
    /\ op.out.result = InvalidInput
    /\ Len(op.out.written) = 2

(***************************************************************************)
(* C14.  Info text round trip: parsing the text an Info displays as gives  *)
(* an Info equal to it; the empty Info displays as "." and "." parses to   *)
(* the empty Info, n fields display joined by ';' in order and parse back  *)
(* to n fields, and the empty string is rejected with ParseError::Empty.   *)
(***************************************************************************)
C14_InfoRoundTrip ==
    /\ Applied("info_to_string") =>
         /\ op.out.parsed = Ok(op.arg.info)
         /\ op.arg.info = << >> <=> op.out.text = MISSING_FIELD
    /\ Applied("info_from_str") =>
         /\ op.arg.s = << >> <=> op.out = Err("Empty")
         /\ op.arg.s = MISSING_FIELD => op.out = Ok(<< >>)

(***************************************************************************)
(* C15.  Exclusive buffer ownership: every Buffer is in at most one place  *)
(* (the recycle channel, the reader thread, the inflate channel, an        *)
(* inflater, a result channel, the caller's active buffer), a Buffer that  *)
(* is in none has been dropped, and the active buffer is in none of the    *)
(* other places.                                                           *)
(***************************************************************************)
\* The places where buffer b is.
BufferPlaces(b) ==
    { << "recycle channel", k >> : k \in { n \in 1..Len(recycle) :
                                             recycle[n] = b } }
    \cup { << "reader", x >> : x \in Range(r_buffer) \cap {b} }
    \cup { << "inflate channel", k >> : k \in { n \in 1..Len(inflate) :
                                                  inflate[n].buffer = b } }
    \cup { << "inflater", i >> :
             i \in { w \in Workers : /\ IsSome(w_item[w])
                                     /\ Unwrap(w_item[w]).result.buffer
                                          = Some(b) } }
    \cup { << "result channel", j >> :
             j \in { f \in FrameIds : buffered[f].buffer = Some(b) } }
    \cup { << "active", x >> : x \in {buffer} \cap {b} }

C15_ExclusiveOwnership ==
    /\ \A b \in BufferIds : Cardinality(BufferPlaces(b)) <= 1
    /\ BufferPlaces(buffer) = { << "active", buffer >> }

\* The buffer the reader was constructed with was recycled by read_block and
\* is now held by the reader thread, while other blocks have been read.
C15_Witness ==
    /\ Len(received) >= 2
    /\ r_buffer = Some(0)
    /\ buffer # 0

(***************************************************************************)
(* C16.  No thread panics on a channel send: the reader thread's sends on  *)
(* the inflate and read channels and an inflater's send on a result        *)
(* channel never find the channel disconnected, so no thread ends in a     *)
(* panic and no join().unwrap() in finish fails.                           *)
(***************************************************************************)
C16_NoSendPanics ==
    /\ r_pc # "panicked"
    /\ \A i \in Workers : w_pc[i] # "panicked"
    /\ c_ret # "join_panic"

(***************************************************************************)
(* C17.  Shutdown runs once: when the reader is dropped after finish() has *)
(* returned, Drop does nothing further and does not fail.                  *)
(***************************************************************************)
C17_ShutdownRunsOnce ==
    c_call = "drop" => c_pc # "panicked" \/ c_ret = "join_panic"

(***************************************************************************)
(* C18.  Sends never block: whenever a thread is about to send, the        *)
(* channel has room.  The reader thread finds the inflate channel and the  *)
(* read channel below their capacity, an inflater finds the result channel *)
(* of its frame empty, and read_block finds the recycle channel below its  *)
(* capacity when it sends the previous buffer back.                        *)
(***************************************************************************)
\* The caller is about to run read_block's loop body on a received buffer.
CallerSendsRecycle ==
    /\ c_pc = "recv_buf"
    /\ buffered[Unwrap(c_rx)].tag = "Ok"
    /\ ReaderAlive

C18_SendsNeverBlock ==
    /\ r_pc = "send_inflate" => Len(inflate) < ChannelCapacity
    /\ r_pc = "send_read" => Len(read_ch) < ChannelCapacity
    /\ \A i \in Workers :
         w_pc[i] = "send" => ResultLen(Unwrap(w_item[i]).frame) < ResultCapacity
    /\ CallerSendsRecycle => Len(recycle) < ChannelCapacity

\* Two workers: the reader thread is about to queue a second receiver on
\* the read channel, which holds one, while an inflater is about to send the
\* result of the frame that receiver is for.
C18_Witness ==
    /\ worker_count = 2
    /\ r_pc = "send_read"
    /\ Len(read_ch) = ChannelCapacity - 1
    /\ \E i \in Workers : /\ w_pc[i] = "send"
                          /\ Unwrap(w_item[i]).frame = Head(read_ch)

(***************************************************************************)
(* C19.  Buffer conservation: while the pipeline is Running and the reader *)
(* thread has not ended, the number of buffers in the pipeline is the      *)
(* number with_worker_count created, whatever the outcome of decoding.     *)
(***************************************************************************)
\* Every place where a Buffer is.
BuffersInPipeline ==
    UNION { BufferPlaces(b) : b \in BufferIds }

C19_BufferConservation ==
    Running /\ ReaderAlive =>
        Cardinality(BuffersInPipeline) = worker_count + 1

(***************************************************************************)
(* C20.  One result per frame: every pair the reader thread has sent to    *)
(* the inflate channel is in the channel, or held by exactly one inflater, *)
(* or has had exactly one result sent on its result channel.               *)
(***************************************************************************)
\* The frames whose (buffer, buffered_tx) pair was sent to the inflate
\* channel.  The frame a panicked reader thread stopped at is left out: the
\* panic may have been that of the send to the inflate channel.
DispatchedFrames ==
    { j \in 1..reader_pos :
        \/ j < reader_pos
        \/ r_pc \in {"send_read", "recv", "Ok", "Err"} }

\* A result for frame j was sent: it is in the result channel, or the
\* caller has received it.
ResultSent(j) ==
    \/ ResultLen(j) = 1
    \/ \E k \in 1..Len(received) : received[k].frame = j

\* Where the pair of frame j is, and whether its result was sent.
FrameStages(j) ==
    { << "inflate channel", k >> : k \in { n \in 1..Len(inflate) :
                                             inflate[n].frame = j } }
    \cup { << "inflater", i >> :
             i \in { w \in Workers : /\ IsSome(w_item[w])
                                     /\ Unwrap(w_item[w]).frame = j } }
    \cup { << "sent", j >> : x \in { y \in {j} : ResultSent(y) } }

C20_OneResultPerFrame ==
    \A j \in DispatchedFrames : Cardinality(FrameStages(j)) = 1

(***************************************************************************)
(* C21.  Drain on shutdown: when finish() returns, every pair the reader   *)
(* thread sent to the inflate channel was received and decoded by an       *)
(* inflater; an inflater ends only when the inflate channel is empty and   *)
(* disconnected, and the reader thread only when the recycle channel is    *)
(* empty and disconnected or the stream ended or failed.                   *)
(***************************************************************************)
\* No pair is left in the inflate channel or in an inflater's hands.
Drained ==
    /\ inflate = << >>
    /\ \A i \in Workers : w_item[i] = None

C21_DrainOnShutdown ==
    [][ /\ FinishReturned' => Drained'
        /\ \A i \in Workers :
             InflaterAlive(i) /\ ~InflaterAlive(i)' =>
                 inflate = << >> /\ ~ReaderAlive
        /\ ReaderAlive /\ ~ReaderAlive' =>
             \/ recycle = << >> /\ ~Running
             \/ read_frame_into(reader_pos) # "frame"
      ]_vars

(***************************************************************************)
(* C22.  Empty blocks are skipped, not reported as the end of the stream:  *)
(* when fill_buf returns data the active block has data left; when it      *)
(* returns an empty slice the read channel is empty and the reader thread  *)
(* has ended, so that no frame will be delivered any more, and every frame *)
(* the reader thread queued was received; position() is the sum of the     *)
(* on-disk sizes of the blocks made active, those without data included.   *)
(***************************************************************************)
RECURSIVE SumActivated(_)
\* The sum of the on-disk sizes of the first n blocks made active.
SumActivated(n) ==
    IF n = 0 THEN 0
    ELSE SumActivated(n - 1) + stream[ActivatedFrames[n]].size

\* fill_buf has returned r.
FillBufReturned(r) == c_call = "fill_buf" /\ c_pc = "idle" /\ c_ret = r

InsertsUnder(inserts, id) ==
    { k \in 1..Len(inserts) : inserts[k].id = id }

C23_ExternalDataReadersIsMap ==
    Applied("external_data_readers") =>
        LET under == InsertsUnder(op.arg.inserts, op.arg.id)
        IN  IF under = {}
              THEN op.out.reader = None
              ELSE \E k \in under :
                     /\ \A m \in under : m <= k
                     /\ op.out.reader = Some(op.arg.inserts[k].reader)

\* Two inserts under id 63, the last slot of the array, the second with
\* another reader: get_mut(63) gives the second.
C23_Witness ==
    /\ Applied("external_data_readers")
    /\ op.arg.id = 63
    /\ Len(op.arg.inserts) = 2
    /\ op.arg.inserts[1] = [id |-> 63, reader |-> "r1"]
    /\ op.arg.inserts[2] = [id |-> 63, reader |-> "r2"]
    /\ op.out.reader = Some("r2")

(***************************************************************************)
(* C24.  read_block on truncated input.                                    *)
(***************************************************************************)
\* What the bytes of src declare after the two bytes of the method and the
\* content type: the content id, the size of the data, the raw size, and
\* the bytes that follow them.
DeclaredSizes(src) ==
    LET id == get_itf8(SubSeq(src, 3, Len(src)))
        size == get_itf8(id.src)
        raw == get_itf8(size.src)
        read == /\ Len(src) >= 2
                /\ id.result.tag = "Ok"
                /\ size.result.tag = "Ok"
                /\ raw.result.tag = "Ok"
    IN  [read |-> read,
         size |-> IF read THEN size.result.value ELSE -1,
         raw |-> IF read THEN raw.result.value ELSE -1,
         rest |-> raw.src]

\* src ends before the compression-method byte, before the content-type
\* byte, before the last of the declared data bytes, or before the last of
\* the 4 bytes of the CRC32.
EndsEarly(src) ==
    \/ Len(src) <= 1
    \/ LET h == DeclaredSizes(src)
       IN  h.read /\ h.size >= 0 /\ Len(h.rest) < h.size + 4

\* No field that src holds before its end is invalid.
FieldsValid(src) ==
    /\ Len(src) >= 1 => CompressionMethod_try_from(src[1]).tag = "Ok"
    /\ Len(src) >= 2 => ContentType_try_from(src[2]).tag = "Ok"
    /\ DeclaredSizes(src).read => DeclaredSizes(src).raw >= 0

\* read_block never panics, and a Block it returns holds the declared
\* number of data bytes, the bytes of src at that place, and the CRC32 of
\* the 4 bytes after them.
C24_NoPanicFullBlock ==
    Applied("read_block") =>
        /\ op.out # Panic
        /\ op.out.tag = "Ok" =>
             LET h == DeclaredSizes(op.arg.src)
             IN  /\ h.read
                 /\ Len(h.rest) >= h.size + 4
                 /\ op.out.value.data = SubSeq(h.rest, 1, h.size)
                 /\ op.out.value.crc32 =
                        get_u32_le(SubSeq(h.rest, h.size + 1,
                                          Len(h.rest))).value

\* C24 as stated: whenever src ends before the compression-method byte,
\* the content-type byte, the declared data bytes or the CRC32, read_block
\* returns UnexpectedEof; it never panics and never returns a Block of
\* fewer bytes than declared.
C24_TruncatedIsUnexpectedEof ==
    /\ C24_NoPanicFullBlock
    /\ Applied("read_block") /\ EndsEarly(op.arg.src) =>
           op.out = UnexpectedEof

\* C24 amended: on such a truncated src read_block returns UnexpectedEof
\* when the fields before the end are valid and InvalidData when one of
\* them is not; it never panics and never returns a Block of fewer bytes
\* than declared.
C24_TruncatedIsError ==
    /\ C24_NoPanicFullBlock
    /\ Applied("read_block") /\ EndsEarly(op.arg.src) =>
           op.out = IF FieldsValid(op.arg.src)
                      THEN UnexpectedEof
                      ELSE InvalidData

\* read_block has returned UnexpectedEof for a src with valid fields that
\* ends inside the declared data bytes.
C24_Witness ==
    /\ Applied("read_block")
    /\ FieldsValid(op.arg.src)
    /\ DeclaredSizes(op.arg.src).read
    /\ Len(DeclaredSizes(op.arg.src).rest) > 0
    /\ Len(DeclaredSizes(op.arg.src).rest) < DeclaredSizes(op.arg.src).size
    /\ op.out = UnexpectedEof

(***************************************************************************)
(* C25, C26.  The counts write_site writes.                                *)
(***************************************************************************)
\* The entry of the given name among the fields a call has written.
WrittenField(written, name) ==
    CHOOSE f \in Range(written) : f.field = name

\* C25: for every record and header that write_site accepts, the high 8
\* bits of the n_fmt_sample word are the FORMAT key count and its low 24
\* bits are the header's sample count.
C25_FmtSampleDecodes ==
    Applied("write_site") /\ op.out.result.tag = "Ok" =>
        LET b == WrittenField(op.out.written, "n_fmt_sample").bytes
            format == op.arg.record.format
        IN  /\ U64(b[4]) = IF IsSome(format) THEN Unwrap(format) ELSE U64(0)
            /\ << 0, 0, b[3], b[1] + 256 * b[2] >> =
                   op.arg.header.sample_names_len

\* C26: the n_allele written by write_site is the number of values that
\* write_ref_alt writes for the record: the reference and one value per
\* alternate allele, or the reference and one missing value.
C26_AlleleCountIsValuesWritten ==
    Applied("write_site") /\ op.out.result.tag = "Ok" =>
        LET n_allele == ReadLE(WrittenField(op.out.written, "n_allele").bytes)
            values == WrittenField(op.out.written, "ref_alt")
            alternate == op.arg.record.alternate_bases_len
        IN  /\ values.ref = 1
            /\ IF alternate = U64(0)
                 THEN /\ values.missing = 1
                      /\ values.alt = U64(0)
                      /\ n_allele = U64(2)
                 ELSE /\ values.missing = 0
                      /\ values.alt = alternate
                      /\ n_allele = AddOne(values.alt)

\* write_site has written a record without alternate alleles.
C26_Witness ==
    /\ Applied("write_site")
    /\ op.out.result.tag = "Ok"
    /\ op.arg.record.alternate_bases_len = U64(0)
    /\ WrittenField(op.out.written, "ref_alt").missing = 1

(***************************************************************************)
(* C27.  The frames of the BAM writer.                                     *)
(***************************************************************************)
\* The frame of a record: the length of its encoding as a little-endian
\* u32, then the encoding.
Frame(bytes) ==
    LET n == Len(bytes)
    IN  << n % 256, (n \div 256) % 256, (n \div 65536) % 256,
           n \div 16777216 >> \o bytes

RECURSIVE Frames(_, _)
\* The frames of the records whose call succeeded, in call order.
Frames(records, results) ==
    IF records = << >> THEN << >>
    ELSE (IF Head(results).tag = "Ok"
            THEN Frame(Head(records).bytes) ELSE << >>)
         \o Frames(Tail(records), Tail(results))

\* C27: after a sequence of write_alignment_record calls the bytes written
\* to the inner writer are the frames of the records whose call succeeded,
\* in call order, each a little-endian u32 length and that many bytes of
\* the record's encoding, with nothing of an earlier record's scratch
\* buffer in a later frame.
C27_RecordFraming ==
    Applied("Writer") =>
        /\ Len(op.out.results) = Len(op.arg.records)
        /\ \A k \in 1..Len(op.arg.records) :
             op.out.results[k].tag = "Ok" <=> ~op.arg.records[k].fails
        /\ op.out.self.inner = Frames(op.arg.records, op.out.results)

\* Two calls have succeeded, the first on a record with a longer encoding
\* than the second's.
C27_Witness ==
    /\ Applied("Writer")
    /\ Len(op.arg.records) = 2
    /\ \A k \in 1..2 : op.out.results[k].tag = "Ok"
    /\ Len(op.arg.records[1].bytes) > Len(op.arg.records[2].bytes)
    /\ Len(op.arg.records[2].bytes) > 0
    /\ Len(op.out.self.inner) = 8 + Len(op.arg.records[1].bytes)
                                  + Len(op.arg.records[2].bytes)

(***************************************************************************)
(* C28.  The tags of an alternative allele map.                            *)
(***************************************************************************)
\* The places of a map's fields whose tag has occurred before.
RepeatedAt(src) ==
    { k \in 1..Len(src) : \E j \in 1..(k - 1) : src[j].tag = src[k].tag }

\* The places of the fields of a tag.
PlacesOf(src, tag) == { k \in 1..Len(src) : src[k].tag = tag }

\* C28: parse_alternative_allele accepts a map only when ID and
\* Description each occur exactly once.  A repeated ID, Description or
\* other tag yields DuplicateTag naming the tag (the first to occur a
\* second time); with no tag repeated, a map without ID yields MissingId
\* and one with ID but without Description MissingDescription; on success
\* the other tags are kept once each, in order of appearance.
C28_TagsOnce ==
    Applied("parse_alternative_allele") =>
        LET src == op.arg.src
            repeated == RepeatedAt(src)
        IN  /\ op.out.tag = "Ok" =>
                 /\ Cardinality(PlacesOf(src, "ID")) = 1
                 /\ Cardinality(PlacesOf(src, "Description")) = 1
            /\ IF repeated # {}
                 THEN op.out = DuplicateTag(
                          src[CHOOSE k \in repeated :
                                \A j \in repeated : k <= j].tag)
               ELSE IF PlacesOf(src, "ID") = {}
                 THEN op.out = MissingId
               ELSE IF PlacesOf(src, "Description") = {}
                 THEN op.out = MissingDescription
               ELSE /\ op.out.tag = "Ok"
                    /\ \A k \in PlacesOf(src, "ID") :
                         op.out.value.id = src[k].value
                    /\ \A k \in PlacesOf(src, "Description") :
                         op.out.value.description = src[k].value
                    /\ op.out.value.other_fields =
                         SelectSeq(src, LAMBDA f :
                                     f.tag \notin {"ID", "Description"})

\* A map with two other tags, the second of them before ID, has been
\* accepted.
C28_Witness ==
    /\ Applied("parse_alternative_allele")
    /\ op.out.tag = "Ok"
    /\ Len(op.out.value.other_fields) = 2
    /\ op.out.value.other_fields[1].tag = "Y"
    /\ op.arg.src[1].tag = "Y"

====
